---- MODULE Spec2Model ----
(***************************************************************************)
(* Model of the variant resolver of src/src/core/simple-variants.ts:       *)
(* the class SimpleVariants (constructor, get, sized, nested, when,        *)
(* combine, getFallback, validateConfiguration, addFallback, has).         *)
(*                                                                         *)
(* A JavaScript string is modelled as the sequence of its separators "."   *)
(* and " " and of the maximal runs of other characters between them, so    *)
(* 'button.primary' is <<"button", ".", "primary">> and '' is <<>>.        *)
(* includes('.'), split('.'), join and the template `${a}.${b}` are then   *)
(* computed on that sequence exactly as JavaScript computes them.          *)
(*                                                                         *)
(* A JavaScript value is a record [k, s, o, x]: k is the kind, s the       *)
(* payload of a string, number or boolean (for a function: the string it   *)
(* returns), o the own properties of an object, x whether a function       *)
(* throws when called.                                                     *)
(*                                                                         *)
(* Also modelled: the facade of createQuickVariants (same file) and        *)
(* safeResolveVariant of ai-helpers.ts, each under its own specification.  *)
(*                                                                         *)
(* variants and fallbacks are the fields of one resolver; peer is the      *)
(* fallbacks field of a second resolver constructed from the same          *)
(* configuration; op, args, ret, threw, log and issues record the last     *)
(* call: what it returned, whether it raised, the diagnostics it emitted   *)
(* and, for the constructor, the issues validation collected.              *)
(***************************************************************************)
EXTENDS Integers, Sequences, FiniteSets, TLC

VARIABLES variants, fallbacks, peer, added, op, args, ret, threw, log, issues

vars == <<variants, fallbacks, peer, added, op, args, ret, threw, log, issues>>

-----------------------------------------------------------------------------
(* Bounds of the model *)

\* at most this many addFallback calls are explored
MaxAdded == 2

\* combine is explored with at most this many entries
MaxEntries == 2

-----------------------------------------------------------------------------
(* JavaScript values *)

NoProps == <<>>

V(k, s, o, x) == [k |-> k, s |-> s, o |-> o, x |-> x]

Undefined == V("undefined", <<>>, NoProps, FALSE)

Null == V("null", <<>>, NoProps, FALSE)

StrV(s) == V("string", s, NoProps, FALSE)

NumV(n) == V("number", <<n>>, NoProps, FALSE)

BoolV(b) == V("boolean", IF b THEN <<"true">> ELSE <<"false">>, NoProps, FALSE)

FnV(s) == V("function", s, NoProps, FALSE)

FnThrow == V("function", <<>>, NoProps, TRUE)

ObjV(o) == V("object", <<>>, o, FALSE)

\* the typeof operator
Typeof(v) == IF v.k = "null" THEN "object" ELSE v.k

\* ToBoolean: what `!x`, `x && y`, `x || y` and filter(Boolean) test
Truthy(v) ==
    CASE v.k = "undefined" -> FALSE
      [] v.k = "null" -> FALSE
      [] v.k = "boolean" -> v.s = <<"true">>
      [] v.k = "number" -> v.s # <<"0">>
      [] v.k = "string" -> v.s # <<>>
      [] OTHER -> TRUE

\* x || y
OrElse(x, y) == IF Truthy(x) THEN x ELSE y

\* obj[key] on a value that is neither null nor undefined: an own property
\* of an object; the property names of the model are not properties of
\* strings, numbers, booleans or functions
Prop(v, key) ==
    IF v.k = "object" /\ key \in DOMAIN v.o THEN v.o[key] ELSE Undefined

\* obj?.[key]
OptProp(v, key) ==
    IF v.k \in {"undefined", "null"} THEN Undefined ELSE Prop(v, key)

\* Object.keys(obj)
Keys(v) == IF v.k = "object" THEN DOMAIN v.o ELSE {}

\* f(): the completion of a call, thrown or returned
Call(f) == [thrown |-> f.x, val |-> f.s]

-----------------------------------------------------------------------------
(* JavaScript strings *)

Dot == <<".">>

Space == <<" ">>

Default == <<"default">>

\* s.includes('.')
includesDot(s) == \E i \in 1..Len(s) : s[i] = "."

RECURSIVE split(_)
\* s.split('.')
split(s) ==
    IF ~includesDot(s) THEN <<s>>
    ELSE LET i == CHOOSE j \in 1..Len(s) :
                      s[j] = "." /\ \A m \in 1..(j - 1) : s[m] # "."
         IN  <<SubSeq(s, 1, i - 1)>> \o split(SubSeq(s, i + 1, Len(s)))

\* s.split('.', limit): the first `limit` pieces, the rest is discarded
splitLimit(s, limit) ==
    LET parts == split(s)
    IN  IF Len(parts) <= limit THEN parts ELSE SubSeq(parts, 1, limit)

RECURSIVE join(_, _)
\* parts.join(sep)
join(parts, sep) ==
    IF Len(parts) = 0 THEN <<>>
    ELSE IF Len(parts) = 1 THEN parts[1]
    ELSE parts[1] \o sep \o join(Tail(parts), sep)

\* parts.slice(1)
slice1(parts) == IF Len(parts) = 0 THEN <<>> ELSE Tail(parts)

-----------------------------------------------------------------------------
(* The fallback table: Map<string, string> *)

BgBlue == <<"bg-blue-600", " ", "text-white", " ", "px-4", " ", "py-2", " ", "rounded">>

BgGray == <<"bg-gray-200", " ", "text-gray-900", " ", "px-4", " ", "py-2", " ", "rounded">>

Outline == <<"border", " ", "border-gray-300", " ", "text-gray-700", " ", "px-4", " ", "py-2", " ", "rounded">>

AlertBlue == <<"bg-blue-50", " ", "border", " ", "border-blue-200", " ", "text-blue-800", " ", "p-4", " ", "rounded">>

AlertRed == <<"bg-red-50", " ", "border", " ", "border-red-200", " ", "text-red-800", " ", "p-4", " ", "rounded">>

InputBorder == <<"border", " ", "border-gray-300", " ", "px-3", " ", "py-2", " ", "rounded", " ", "focus:ring-2", " ", "focus:ring-blue-500">>

BadgeGray == <<"bg-gray-100", " ", "text-gray-800", " ", "px-2", " ", "py-1", " ", "rounded", " ", "text-sm">>

\* this.fallbacks.set(key, classes)
mapSet(fb, key, classes) ==
    [k \in DOMAIN fb \cup {key} |-> IF k = key THEN classes ELSE fb[k]]

\* this.fallbacks.get(key): undefined for a key that was never set
mapGet(fb, key) == IF key \in DOMAIN fb THEN StrV(fb[key]) ELSE Undefined

\* the table after setupDefaultFallbacks() on the empty Map
setupDefaultFallbacks ==
    LET m0 == <<>>
        m1 == mapSet(m0, <<"button", ".", "primary">>, BgBlue)
        m2 == mapSet(m1, <<"button", ".", "secondary">>, BgGray)
        m3 == mapSet(m2, <<"button", ".", "outline">>, Outline)
        m4 == mapSet(m3, <<"alert", ".", "default">>, AlertBlue)
        m5 == mapSet(m4, <<"alert", ".", "destructive">>, AlertRed)
        m6 == mapSet(m5, <<"input", ".", "default">>, InputBorder)
    IN  mapSet(m6, <<"badge", ".", "default">>, BadgeGray)

\* getFallback(component, variant): the style and the diagnostics emitted
getFallback(fb, component, variant) ==
    LET key == component \o Dot \o variant
        fallback == OrElse(mapGet(fb, key),
                           OrElse(mapGet(fb, component \o Dot \o Default),
                                  StrV(<<>>)))
    IN  [val |-> fallback.s,
         log |-> IF ~Truthy(fallback) THEN <<"FALLBACK_NOT_FOUND">> ELSE <<>>]

-----------------------------------------------------------------------------
(* The resolver's operations.  vs is this.variants, fb is this.fallbacks;  *)
(* each yields the returned value, whether it raised to the caller, and    *)
(* the diagnostics it emitted.                                             *)

Returned(val, lg) == [ret |-> val, threw |-> FALSE, log |-> lg]

Raised(lg) == [ret |-> Undefined, threw |-> TRUE, log |-> lg]

\* get that forgets the 'default' member of an object variant
getTry_NoObjectDefault(vs, fb, component, variant) ==
    LET componentVariants == Prop(vs, component)
        variantValue == Prop(componentVariants, variant)
        fall == getFallback(fb, component, variant)
        viaFallback == [thrown |-> FALSE, val |-> fall.val, log |-> fall.log]
    IN  IF ~Truthy(componentVariants) THEN viaFallback
        ELSE IF Typeof(variantValue) = "function"
             THEN [thrown |-> Call(variantValue).thrown,
                   val |-> Call(variantValue).val, log |-> <<>>]
        ELSE IF Typeof(variantValue) = "string"
             THEN [thrown |-> FALSE, val |-> variantValue.s, log |-> <<>>]
        ELSE viaFallback

\* a try block that lets a registered fallback override the configuration
getTry_FallbackFirst(vs, fb, component, variant) ==
    IF (component \o Dot \o variant) \in DOMAIN fb
    THEN [thrown |-> FALSE, val |-> fb[component \o Dot \o variant], log |-> <<>>]
    ELSE getTry_NoObjectDefault(vs, fb, component, variant)

\* a try block that tests the variant value for truthiness before its type
getTry_TruthyFirst(vs, fb, component, variant) ==
    IF ~Truthy(Prop(Prop(vs, component), variant))
    THEN [thrown |-> FALSE, val |-> getFallback(fb, component, variant).val,
          log |-> getFallback(fb, component, variant).log]
    ELSE getTry_NoObjectDefault(vs, fb, component, variant)

\* the try block of get: thrown, or the style it returns
getTry(vs, fb, component, variant) ==
    LET componentVariants == Prop(vs, component)
        variantValue == Prop(componentVariants, variant)
        dflt == Prop(variantValue, Default)
        fall == getFallback(fb, component, variant)
        viaFallback == [thrown |-> FALSE, val |-> fall.val, log |-> fall.log]
    IN  IF ~Truthy(componentVariants) THEN viaFallback
        ELSE IF Typeof(variantValue) = "function"
             THEN [thrown |-> Call(variantValue).thrown,
                   val |-> Call(variantValue).val, log |-> <<>>]
        ELSE IF Typeof(variantValue) = "string"
             THEN [thrown |-> FALSE, val |-> variantValue.s, log |-> <<>>]
        ELSE IF Truthy(variantValue) /\ Typeof(variantValue) = "object"
                /\ Typeof(dflt) = "function"
             THEN [thrown |-> Call(dflt).thrown, val |-> Call(dflt).val,
                   log |-> <<>>]
        ELSE IF Truthy(variantValue) /\ Typeof(variantValue) = "object"
                /\ Typeof(dflt) = "string"
             THEN [thrown |-> FALSE, val |-> dflt.s, log |-> <<>>]
        ELSE viaFallback

\* get whose catch block rethrows instead of falling back
getCatch_Rethrow(vs, fb, component, variant) ==
    Raised(<<"VARIANT_RESOLUTION_ERROR">>)

\* the catch block of get
getCatch(vs, fb, component, variant) ==
    LET fall == getFallback(fb, component, variant)
    IN  Returned(StrV(fall.val), <<"VARIANT_RESOLUTION_ERROR">> \o fall.log)

\* the dot-notation test with the variant check inverted
dotNotation_Inverted(component, variant) ==
    Truthy(variant) /\ includesDot(component)

\* the test for dot notation: !variant && component.includes('.')
dotNotation(component, variant) == ~Truthy(variant) /\ includesDot(component)

\* get that leaves an omitted variant as it is: the key looked up is 'undefined'
defaultVariant_Forgotten(variant) ==
    IF variant.k = "undefined" THEN <<"undefined">> ELSE variant.s

\* if (!variant) variant = 'default'
defaultVariant(variant) == IF ~Truthy(variant) THEN Default ELSE variant.s

RECURSIVE get(_, _, _, _)
\* get(component, variant?): variant is a string value or undefined
get(vs, fb, component, variant) ==
    IF dotNotation(component, variant)
    THEN LET parts == splitLimit(component, 2)
         IN  get(vs, fb, parts[1], StrV(parts[2]))
    ELSE LET v == defaultVariant(variant)
             t == getTry(vs, fb, component, v)
         IN  IF t.thrown THEN getCatch(vs, fb, component, v)
             ELSE Returned(StrV(t.val), t.log)

\* has without its guard and its try/catch: a missing component raises
has_Unguarded(vs, component, variant) ==
    LET componentVariants == Prop(vs, component)
    IN  IF componentVariants.k \in {"undefined", "null"} THEN Raised(<<>>)
        ELSE Returned(BoolV(Truthy(Prop(componentVariants, variant))), <<>>)

\* has that tests the presence of the variant key, not its value
has_KeyPresent(vs, component, variant) ==
    LET componentVariants == Prop(vs, component)
    IN  Returned(BoolV(Truthy(componentVariants)
                       /\ variant \in Keys(componentVariants)), <<>>)

\* has that tests the component only
has_ComponentOnly(vs, component, variant) ==
    Returned(BoolV(Truthy(Prop(vs, component))), <<>>)

\* has(component, variant)
has(vs, component, variant) ==
    LET componentVariants == Prop(vs, component)
    IN  Returned(BoolV(Truthy(componentVariants)
                       /\ Truthy(Prop(componentVariants, variant))), <<>>)

\* an addFallback that keeps the entry a key already has
addFallback_KeepFirst(fb, key, classes) ==
    IF key \in DOMAIN fb THEN fb ELSE mapSet(fb, key, classes)

\* addFallback(key, classes): the table afterwards
addFallback(fb, key, classes) == mapSet(fb, key, classes)

\* sized(component, variant, size)
sized(vs, fb, component, variant, size) ==
    LET componentVariants == Prop(vs, component)
        variantObj == OptProp(componentVariants, variant)
        sizedVariant == Prop(variantObj, size)
        base == get(vs, fb, component, StrV(variant))
    IN  IF Truthy(variantObj) /\ Typeof(variantObj) = "object"
           /\ Truthy(sizedVariant) /\ Typeof(sizedVariant) = "function"
        THEN IF Call(sizedVariant).thrown
             THEN [base EXCEPT !.log = <<"console.warn">> \o base.log]
             ELSE Returned(StrV(Call(sizedVariant).val), <<>>)
        ELSE IF Truthy(variantObj) /\ Typeof(variantObj) = "object"
                /\ Truthy(sizedVariant) /\ Typeof(sizedVariant) = "string"
        THEN Returned(sizedVariant, <<>>)
        ELSE base

RECURSIVE walk(_, _)
\* the for loop of nested: current after following parts, or the first
\* falsy value met on the way
walk(current, parts) ==
    IF Len(parts) = 0 THEN current
    ELSE LET next == OptProp(current, Head(parts))
         IN  IF ~Truthy(next) THEN next ELSE walk(next, Tail(parts))

\* nested(path)
nested(vs, fb, path) ==
    LET parts == split(path)
        current == walk(vs, parts)
        dflt == OptProp(current, Default)
        fall == getFallback(fb, parts[1], join(slice1(parts), Dot))
        caught == Returned(StrV(fall.val), <<"console.warn">> \o fall.log)
    IN  IF Typeof(current) = "function"
        THEN IF Call(current).thrown THEN caught
             ELSE Returned(StrV(Call(current).val), <<>>)
        ELSE IF Typeof(current) = "string" THEN Returned(current, <<>>)
        ELSE IF Truthy(current) /\ Typeof(dflt) = "function"
        THEN IF Call(dflt).thrown THEN caught
             ELSE Returned(StrV(Call(dflt).val), <<>>)
        ELSE IF Truthy(current) /\ Typeof(dflt) = "string"
        THEN Returned(dflt, <<>>)
        ELSE Returned(StrV(fall.val), fall.log)

\* when, testing falseComponent alone before taking the false branch
when_ComponentOnly(vs, fb, condition, trueComponent, trueVariant, falseComponent, falseVariant) ==
    IF Truthy(condition) THEN get(vs, fb, trueComponent, StrV(trueVariant))
    ELSE IF Truthy(falseComponent)
    THEN get(vs, fb, falseComponent.s, falseVariant)
    ELSE Returned(StrV(<<>>), <<>>)

\* when(condition, trueComponent, trueVariant, falseComponent?, falseVariant?)
when(vs, fb, condition, trueComponent, trueVariant, falseComponent, falseVariant) ==
    IF Truthy(condition) THEN get(vs, fb, trueComponent, StrV(trueVariant))
    ELSE IF Truthy(falseComponent) /\ Truthy(falseVariant)
    THEN get(vs, fb, falseComponent.s, falseVariant)
    ELSE Returned(StrV(<<>>), <<>>)

\* a map callback that never resolves a dotted entry
combineEntry_AlwaysLiteral(vs, fb, v) == Returned(StrV(v), <<>>)

\* a map callback that passes a dotted entry through when nested finds
\* nothing for it
combineEntry_LiteralWhenUnmatched(vs, fb, v) ==
    IF includesDot(v) /\ nested(vs, fb, v).ret.s # <<>>
    THEN nested(vs, fb, v)
    ELSE Returned(StrV(v), <<>>)

\* the map callback of combine
combineEntry(vs, fb, v) ==
    IF includesDot(v) THEN nested(vs, fb, v) ELSE Returned(StrV(v), <<>>)

RECURSIVE filterBoolean(_)
\* strings.filter(Boolean)
filterBoolean(strs) ==
    IF Len(strs) = 0 THEN <<>>
    ELSE (IF Truthy(StrV(Head(strs))) THEN <<Head(strs)>> ELSE <<>>)
         \o filterBoolean(Tail(strs))

RECURSIVE concatLogs(_)
concatLogs(rs) ==
    IF Len(rs) = 0 THEN <<>> ELSE Head(rs).log \o concatLogs(Tail(rs))

\* a combine that puts the resolved paths before the literals
combine_ResolvedFirst(vs, fb, entries) ==
    LET IsPath(e) == includesDot(e)
        IsLiteral(e) == ~includesDot(e)
        ordered == SelectSeq(entries, IsPath) \o SelectSeq(entries, IsLiteral)
        mapped == [i \in 1..Len(ordered) |-> combineEntry(vs, fb, ordered[i])]
        strs == [i \in 1..Len(ordered) |-> mapped[i].ret.s]
    IN  Returned(StrV(join(filterBoolean(strs), Space)), concatLogs(mapped))

\* combine(...variants)
combine(vs, fb, entries) ==
    LET mapped == [i \in 1..Len(entries) |-> combineEntry(vs, fb, entries[i])]
        strs == [i \in 1..Len(entries) |-> mapped[i].ret.s]
    IN  IF \E i \in 1..Len(entries) : mapped[i].threw
        THEN Raised(concatLogs(mapped))
        ELSE Returned(StrV(join(filterBoolean(strs), Space)), concatLogs(mapped))

\* a validation that collects the errors and no warning
validationIssues_ErrorsOnly(vs) ==
    UNION {{[type |-> "error", component |-> c, variant |-> v] :
              v \in {v \in Keys(vs.o[c]) :
                       Typeof(vs.o[c].o[v]) \notin {"function", "string", "object"}}} :
           c \in {c \in Keys(vs) : Typeof(vs.o[c]) = "object" /\ vs.o[c].k # "null"}}

\* validateConfiguration(): the issues it collects
validationIssues(vs) ==
    {[type |-> "warning", component |-> c, variant |-> <<>>] :
        c \in {c \in Keys(vs) : Typeof(vs.o[c]) = "object" /\ vs.o[c].k # "null"
                                /\ Default \notin Keys(vs.o[c])}}
    \cup
    UNION {{[type |-> "error", component |-> c, variant |-> v] :
              v \in {v \in Keys(vs.o[c]) :
                       Typeof(vs.o[c].o[v]) \notin {"function", "string", "object"}}} :
           c \in {c \in Keys(vs) : Typeof(vs.o[c]) = "object" /\ vs.o[c].k # "null"}}

\* validateConfiguration(): the diagnostics it emits
validateConfiguration(vs) ==
    IF ~Truthy(vs) \/ Typeof(vs) # "object" THEN <<"INVALID_CONFIGURATION">>
    ELSE IF validationIssues(vs) # {} THEN <<"CONFIGURATION_VALIDATION">>
    ELSE <<>>

\* new SimpleVariants(designSystemVariants)
constructor(designSystemVariants) ==
    LET vs == OrElse(designSystemVariants, ObjV(NoProps))
    IN  [variants |-> vs, fallbacks |-> setupDefaultFallbacks,
         threw |-> FALSE, log |-> validateConfiguration(vs),
         issues |-> IF ~Truthy(vs) \/ Typeof(vs) # "object" THEN {}
                    ELSE validationIssues(vs)]

\* a button accessor that never dispatches to sized
quickButton_AlwaysGet(vs, fb, variant, size) == get(vs, fb, <<"button">>, StrV(variant))

\* createQuickVariants(...).button(variant, size?) on the facade's resolver
quickButton(vs, fb, variant, size) ==
    IF Truthy(size) THEN sized(vs, fb, <<"button">>, variant, size.s)
    ELSE get(vs, fb, <<"button">>, StrV(variant))

\* createQuickVariants(...).alert(variant), input(variant), badge(variant)
quickNamed(vs, fb, component, variant) == get(vs, fb, component, StrV(variant))

-----------------------------------------------------------------------------
(* safeResolveVariant of ai-helpers.ts *)

\* String(value)
String(v) ==
    IF v.k = "object" THEN <<"[object Object]">>
    ELSE IF v.k = "null" THEN <<"null">>
    ELSE IF v.k = "undefined" THEN <<"undefined">>
    ELSE v.s

\* typeof value === 'function' ? value() : String(value)
callOrString(v) ==
    IF Typeof(v) = "function" THEN Call(v)
    ELSE [thrown |-> FALSE, val |-> String(v)]

\* the state of result when the try block ends, by return or by throw
SafeResult(thrown, classes, usedFallback, warnings) ==
    [thrown |-> thrown, classes |-> classes, usedFallback |-> usedFallback,
     warnings |-> warnings]

\* if (options.fallback) {...} else if (options.strict) { throw ... }
fallbackOrStrict(strict, fallback, warnings) ==
    IF Truthy(fallback)
    THEN IF Call(fallback).thrown THEN SafeResult(TRUE, <<>>, FALSE, warnings)
         ELSE SafeResult(FALSE, Call(fallback).val, TRUE, warnings)
    ELSE IF Truthy(strict) THEN SafeResult(TRUE, <<>>, FALSE, warnings)
    ELSE SafeResult(FALSE, <<>>, FALSE, warnings)

\* the try block of safeResolveVariant
safeTry(config, component, variant, strict, fallback) ==
    LET componentConfig == Prop(config, component)
        variantValue == Prop(componentConfig, variant)
        defaultValue == Prop(componentConfig, Default)
    IN  IF config.k \in {"undefined", "null"}
        THEN SafeResult(TRUE, <<>>, FALSE, <<>>)
        ELSE IF ~Truthy(componentConfig)
        THEN fallbackOrStrict(strict, fallback, <<"Component not found">>)
        ELSE IF Typeof(componentConfig) = "function"
        THEN SafeResult(Call(componentConfig).thrown,
                        IF Call(componentConfig).thrown THEN <<>>
                        ELSE Call(componentConfig).val, FALSE, <<>>)
        ELSE IF Typeof(componentConfig) = "string"
        THEN SafeResult(FALSE, componentConfig.s, FALSE, <<>>)
        ELSE IF Typeof(componentConfig) = "object"
        THEN IF ~Truthy(variantValue)
             THEN IF Truthy(defaultValue)
                  THEN IF callOrString(defaultValue).thrown
                       THEN SafeResult(TRUE, <<>>, FALSE, <<"Variant not found">>)
                       ELSE SafeResult(FALSE, callOrString(defaultValue).val, TRUE,
                                       <<"Variant not found", "Using default">>)
                  ELSE fallbackOrStrict(strict, fallback, <<"Variant not found">>)
             ELSE IF callOrString(variantValue).thrown
                  THEN SafeResult(TRUE, <<>>, FALSE, <<>>)
                  ELSE SafeResult(FALSE, callOrString(variantValue).val, FALSE, <<>>)
        ELSE SafeResult(FALSE, <<>>, FALSE, <<>>)

\* the VariantResolutionResult returned to the caller
resolutionResult(classes, usedFallback) ==
    ObjV([p \in {<<"classes">>, <<"usedFallback">>} |->
             IF p = <<"classes">> THEN StrV(classes) ELSE BoolV(usedFallback)])

\* a catch block that rethrows under options.strict
safeCatch_Rethrow(t, strict, fallback) ==
    IF Truthy(strict) THEN Raised(t.warnings \o <<"Error resolving variant">>)
    ELSE Returned(resolutionResult(<<>>, FALSE),
                  t.warnings \o <<"Error resolving variant">>)

\* the catch block of safeResolveVariant
safeCatch(t, strict, fallback) ==
    IF Truthy(fallback)
    THEN IF Call(fallback).thrown
         THEN Raised(t.warnings \o <<"Error resolving variant">>)
         ELSE Returned(resolutionResult(Call(fallback).val, TRUE),
                       t.warnings \o <<"Error resolving variant">>)
    ELSE Returned(resolutionResult(<<>>, FALSE),
                  t.warnings \o <<"Error resolving variant">>)

\* safeResolveVariant(config, component, variant = 'default', options = {}):
\* strict and fallback are options.strict and options.fallback; the log
\* of the outcome is result.warnings
safeResolveVariant(config, component, variant, strict, fallback) ==
    LET v == IF variant.k = "undefined" THEN Default ELSE variant.s
        t == safeTry(config, component, v, strict, fallback)
    IN  IF t.thrown THEN safeCatch(t, strict, fallback)
        ELSE Returned(resolutionResult(t.classes, t.usedFallback), t.warnings)

-----------------------------------------------------------------------------
(* The configurations and arguments explored *)

Button == <<"button">>

Alert == <<"alert">>

Primary == <<"primary">>

Missing == <<"missing">>

Sm == <<"sm">>

Lg == <<"lg">>

ButtonPrimary == <<"button", ".", "primary">>

ButtonPrimarySm == <<"button", ".", "primary", ".", "sm">>

PrimarySm == <<"primary", ".", "sm">>

\* a set of properties as an object: pairs <<key, value>>, an undefined
\* value meaning the key is left out
Object(pairs) ==
    ObjV([k \in {p[1] : p \in {q \in pairs : q[2] # Undefined}} |->
            (CHOOSE p \in pairs : p[1] = k)[2]])

\* what a size key or a 'default' key of a variant object may hold
LeafValues ==
    {Undefined, FnV(<<"leaf-fn">>), StrV(<<"leaf-str">>), FnThrow, NumV("1")}

\* what a variant key of a component may hold
VariantValues ==
    {Null, NumV("0"), NumV("1"), StrV(<<>>), StrV(<<"cfg-str">>),
     StrV(<<"lit", " ", "lit">>),
     FnV(<<"bg-blue-600", " ", "text-white">>), FnThrow}
    \cup {Object({<<Default, d>>, <<Sm, z>>}) :
            <<d, z>> \in (LeafValues \X {Undefined})
                         \cup ({Undefined, StrV(<<"leaf-str">>)} \X LeafValues)
                         \cup {<<FnThrow, FnThrow>>, <<StrV(<<"leaf-str">>), StrV(<<>>)>>}}

\* what a component key of the configuration may hold
ComponentValues ==
    {Null, NumV("1"), StrV(<<>>), StrV(<<"oops">>), FnV(<<"comp-fn">>)}
    \cup {Object({<<Primary, p>>, <<Default, StrV(<<"cfg-default">>)>>}) :
            p \in VariantValues}
    \cup {Object({<<Primary, p>>, <<Default, d>>}) :
            <<p, d>> \in ({Undefined, StrV(<<"cfg-str">>)}
                             \X {Undefined, FnV(<<"cfg-default-fn">>), FnThrow, NumV("1")})
                          \cup {<<NumV("1"), Undefined>>}}

\* what the constructor may be given
Configs ==
    {Undefined, Null, NumV("7"), StrV(<<"oops">>), BoolV(TRUE)}
    \cup {Object({<<Button, c>>}) : c \in ComponentValues}
    \cup {Object({<<Button, Object({<<Primary, StrV(<<"cfg-str">>)>>})>>,
                  <<ButtonPrimary, Object({<<Default, d>>, <<Sm, StrV(<<"dotted-sm">>)>>})>>}) :
            d \in {Undefined, StrV(<<"dotted-default">>)}}

\* component arguments of get and has
ComponentArgs ==
    {Button, Alert, ButtonPrimary, <<"button", ".", "missing">>, ButtonPrimarySm}

\* variant arguments of get; undefined is the omitted argument
VariantArgs ==
    {Undefined, StrV(<<>>), StrV(Primary), StrV(Default), StrV(Missing), StrV(PrimarySm)}

\* size arguments of sized
SizeArgs == {Sm, Lg}

\* path arguments of nested, and the entries of combine
PathArgs ==
    {Button, ButtonPrimary, ButtonPrimarySm, <<"button", ".", "missing">>,
     <<"alert", ".", "default">>, <<"w-[2", ".", "5rem]">>}

EntryArgs == {ButtonPrimary, <<"lit">>, <<>>, <<"w-[2", ".", "5rem]">>}

\* keys and classes given to addFallback
FallbackKeys ==
    {ButtonPrimary, <<"button", ".", "missing">>, <<"button", ".", "default">>,
     ButtonPrimarySm}

FallbackClasses == {<<>>, <<"bg-gray-200">>}

\* sequences over S of length at most n
RECURSIVE SeqsUpTo(_, _)
SeqsUpTo(S, n) ==
    IF n = 0 THEN {<<>>}
    ELSE SeqsUpTo(S, n - 1)
         \cup {Append(q, x) : q \in {r \in SeqsUpTo(S, n - 1) : Len(r) = n - 1}, x \in S}

-----------------------------------------------------------------------------
(* The state machine: a resolver, and the last call made on it *)

Record(name, arguments, r) ==
    /\ op' = name
    /\ args' = arguments
    /\ ret' = r.ret
    /\ threw' = r.threw
    /\ log' = r.log
    /\ issues' = {}

Init ==
    \E cfg \in Configs :
        LET c == constructor(cfg)
        IN  /\ variants = c.variants
            /\ fallbacks = c.fallbacks
            /\ peer = constructor(cfg).fallbacks
            /\ added = 0
            /\ op = "constructor"
            /\ args = <<cfg>>
            /\ ret = Undefined
            /\ threw = c.threw
            /\ log = c.log
            /\ issues = c.issues

\* the caller takes the result; the resolver is ready for the next call
Return ==
    /\ op # "idle"
    /\ op' = "idle"
    /\ args' = <<>>
    /\ ret' = Undefined
    /\ threw' = FALSE
    /\ log' = <<>>
    /\ issues' = {}
    /\ UNCHANGED <<variants, fallbacks, peer, added>>

\* a get that stores the style it returned as the component's default
\* fallback
Get_CachesFallback ==
    /\ op = "idle"
    /\ \E component \in ComponentArgs, variant \in VariantArgs :
          /\ Record("get", <<StrV(component), variant>>,
                    get(variants, fallbacks, component, variant))
          /\ fallbacks' = mapSet(fallbacks, component \o Dot \o Default,
                                 get(variants, fallbacks, component, variant).ret.s)
    /\ UNCHANGED <<variants, peer, added>>

Get ==
    /\ op = "idle"
    /\ \E component \in ComponentArgs, variant \in VariantArgs :
          Record("get", <<StrV(component), variant>>,
                 get(variants, fallbacks, component, variant))
    /\ UNCHANGED <<variants, fallbacks, peer, added>>

Sized ==
    /\ op = "idle"
    /\ \E component \in {Button, Alert}, variant \in {Primary, Missing}, size \in SizeArgs :
          Record("sized", <<StrV(component), StrV(variant), StrV(size)>>,
                 sized(variants, fallbacks, component, variant, size))
    /\ UNCHANGED <<variants, fallbacks, peer, added>>

Nested ==
    /\ op = "idle"
    /\ \E path \in PathArgs :
          Record("nested", <<StrV(path)>>, nested(variants, fallbacks, path))
    /\ UNCHANGED <<variants, fallbacks, peer, added>>

When ==
    /\ op = "idle"
    /\ \E condition \in BOOLEAN, trueVariant \in {Primary, Missing},
          falseComponent \in {Undefined, StrV(<<>>), StrV(Alert)},
          falseVariant \in {Undefined, StrV(<<>>), StrV(Default)} :
          Record("when", <<BoolV(condition), StrV(Button), StrV(trueVariant),
                           falseComponent, falseVariant>>,
                 when(variants, fallbacks, BoolV(condition), Button, trueVariant,
                      falseComponent, falseVariant))
    /\ UNCHANGED <<variants, fallbacks, peer, added>>

Combine ==
    /\ op = "idle"
    /\ \E entries \in SeqsUpTo(EntryArgs, MaxEntries) :
          Record("combine", [i \in 1..Len(entries) |-> StrV(entries[i])],
                 combine(variants, fallbacks, entries))
    /\ UNCHANGED <<variants, fallbacks, peer, added>>

Has ==
    /\ op = "idle"
    /\ \E component \in ComponentArgs, variant \in {Primary, Default, Missing} :
          Record("has", <<StrV(component), StrV(variant)>>,
                 has(variants, component, variant))
    /\ UNCHANGED <<variants, fallbacks, peer, added>>

AddFallback ==
    /\ op = "idle"
    /\ added < MaxAdded
    /\ \E key \in FallbackKeys, classes \in FallbackClasses :
          /\ fallbacks' = addFallback(fallbacks, key, classes)
          /\ Record("addFallback", <<StrV(key), StrV(classes)>>,
                    Returned(Undefined, <<>>))
    /\ added' = added + 1
    /\ UNCHANGED <<variants, peer>>

\* the configurations two resolvers are constructed from
PeerConfigs ==
    {Undefined,
     Object({<<Button, Object({<<Primary, StrV(<<"cfg-str">>)>>})>>}),
     Object({<<Button, Object({<<Default, FnThrow>>})>>})}

\* keys given to addFallback on the second resolver
PeerKeys == {ButtonPrimary, <<"button", ".", "missing">>}

\* two resolvers constructed from one configuration object
InitPeer ==
    \E cfg \in PeerConfigs :
        LET c == constructor(cfg)
        IN  /\ variants = c.variants
            /\ fallbacks = c.fallbacks
            /\ peer = constructor(cfg).fallbacks
            /\ added = 0
            /\ op = "constructor"
            /\ args = <<cfg>>
            /\ ret = Undefined
            /\ threw = c.threw
            /\ log = c.log
            /\ issues = c.issues

\* an addFallback on the second resolver that writes a table shared by
\* both resolvers
PeerAddFallback_Shared ==
    /\ op = "idle"
    /\ \E key \in PeerKeys, classes \in FallbackClasses :
          /\ peer' = addFallback(peer, key, classes)
          /\ fallbacks' = addFallback(fallbacks, key, classes)
          /\ Record("peer.addFallback", <<StrV(key), StrV(classes)>>,
                    Returned(Undefined, <<>>))
    /\ UNCHANGED <<variants, added>>

\* addFallback(key, classes) on the second resolver
PeerAddFallback ==
    /\ op = "idle"
    /\ \E key \in PeerKeys, classes \in FallbackClasses :
          /\ peer' = addFallback(peer, key, classes)
          /\ Record("peer.addFallback", <<StrV(key), StrV(classes)>>,
                    Returned(Undefined, <<>>))
    /\ UNCHANGED <<variants, fallbacks, added>>

\* get(component, variant) on the second resolver
PeerGet ==
    /\ op = "idle"
    /\ \E component \in ComponentArgs, variant \in VariantArgs :
          Record("peer.get", <<StrV(component), variant>>,
                 get(variants, peer, component, variant))
    /\ UNCHANGED <<variants, fallbacks, peer, added>>

\* the configurations a resolver and a quick facade are created from
QuickConfigs ==
    {Undefined,
     Object({<<Button, Object({<<Primary, FnThrow>>,
                              <<Default, StrV(<<"cfg-default">>)>>})>>}),
     Object({<<Button, Object({<<Primary,
                                Object({<<Default, StrV(<<"leaf-str">>)>>,
                                        <<Sm, FnV(<<"leaf-fn">>)>>,
                                        <<<<>>, StrV(<<"empty-key">>)>>})>>})>>,
             <<Alert, Object({<<Primary, StrV(<<"cfg-str">>)>>})>>})}

\* variants = createVariants(config) and v = createQuickVariants(config):
\* the facade constructs a resolver of its own, whose table is peer
InitQuick ==
    \E cfg \in QuickConfigs :
        LET c == constructor(cfg)
        IN  /\ variants = c.variants
            /\ fallbacks = c.fallbacks
            /\ peer = constructor(cfg).fallbacks
            /\ added = 0
            /\ op = "constructor"
            /\ args = <<cfg>>
            /\ ret = Undefined
            /\ threw = c.threw
            /\ log = c.log
            /\ issues = c.issues

\* v.button(variant, size?)
QuickButton ==
    /\ op = "idle"
    /\ \E variant \in {Primary, Missing},
          size \in {Undefined, StrV(<<>>), StrV(Sm), StrV(Lg)} :
          Record("v.button", <<StrV(variant), size>>,
                 quickButton(variants, peer, variant, size))
    /\ UNCHANGED <<variants, fallbacks, peer, added>>

\* v.alert(variant), v.input(variant), v.badge(variant)
QuickNamed ==
    /\ op = "idle"
    /\ \E component \in {<<"alert">>, <<"input">>, <<"badge">>},
          variant \in {Primary, Default, Missing} :
          Record("v." \o component[1], <<StrV(variant)>>,
                 quickNamed(variants, peer, component, variant))
    /\ UNCHANGED <<variants, fallbacks, peer, added>>

\* v.get(component, variant?)
QuickGet ==
    /\ op = "idle"
    /\ \E component \in ComponentArgs, variant \in VariantArgs :
          Record("v.get", <<StrV(component), variant>>,
                 get(variants, peer, component, variant))
    /\ UNCHANGED <<variants, fallbacks, peer, added>>

\* v.nested(path)
QuickNested ==
    /\ op = "idle"
    /\ \E path \in PathArgs :
          Record("v.nested", <<StrV(path)>>, nested(variants, peer, path))
    /\ UNCHANGED <<variants, fallbacks, peer, added>>

\* v.when(condition, trueComp, trueVar, falseComp?, falseVar?)
QuickWhen ==
    /\ op = "idle"
    /\ \E condition \in BOOLEAN, trueVariant \in {Primary, Missing},
          falseComponent \in {Undefined, StrV(Alert)},
          falseVariant \in {Undefined, StrV(Default)} :
          Record("v.when", <<BoolV(condition), StrV(Button), StrV(trueVariant),
                             falseComponent, falseVariant>>,
                 when(variants, peer, BoolV(condition), Button, trueVariant,
                      falseComponent, falseVariant))
    /\ UNCHANGED <<variants, fallbacks, peer, added>>

\* v.combine(...variants)
QuickCombine ==
    /\ op = "idle"
    /\ \E entries \in SeqsUpTo(EntryArgs, MaxEntries) :
          Record("v.combine", [i \in 1..Len(entries) |-> StrV(entries[i])],
                 combine(variants, peer, entries))
    /\ UNCHANGED <<variants, fallbacks, peer, added>>

\* a caller of safeResolveVariant holding a configuration; no resolver is
\* constructed
InitSafe ==
    /\ variants \in Configs
    /\ fallbacks = <<>>
    /\ peer = <<>>
    /\ added = 0
    /\ op = "idle"
    /\ args = <<>>
    /\ ret = Undefined
    /\ threw = FALSE
    /\ log = <<>>
    /\ issues = {}

\* safeResolveVariant(config, component, variant?, {strict?, fallback?})
SafeResolveVariant ==
    /\ op = "idle"
    /\ \E component \in {Button, Alert},
          variant \in {Undefined, StrV(Primary), StrV(Missing)},
          strict \in {Undefined, BoolV(FALSE), BoolV(TRUE)},
          fallback \in {Undefined, FnV(<<"fallback-classes">>), FnThrow} :
          Record("safeResolveVariant", <<StrV(component), variant, strict, fallback>>,
                 safeResolveVariant(variants, component, variant, strict, fallback))
    /\ UNCHANGED <<variants, fallbacks, peer, added>>

Next ==
    \/ Return
    \/ Get
    \/ Sized
    \/ Nested
    \/ When
    \/ Combine
    \/ Has
    \/ AddFallback

Spec == Init /\ [][Next]_vars

NextPeer ==
    \/ Return
    \/ Get
    \/ AddFallback
    \/ PeerGet
    \/ PeerAddFallback

SpecPeer == InitPeer /\ [][NextPeer]_vars

NextQuick ==
    \/ Return
    \/ Get
    \/ AddFallback
    \/ QuickButton
    \/ QuickNamed
    \/ QuickGet
    \/ QuickNested
    \/ QuickWhen
    \/ QuickCombine

SpecQuick == InitQuick /\ [][NextQuick]_vars

NextSafe ==
    \/ Return
    \/ SafeResolveVariant

SpecSafe == InitSafe /\ [][NextSafe]_vars

-----------------------------------------------------------------------------
(* Properties of the resolver *)

\* s is a non-empty name without a dot
IsName(s) == Len(s) > 0 /\ \A i \in 1..Len(s) : s[i] # "."

\* the number of dots of s
Dots(s) == Cardinality({i \in 1..Len(s) : s[i] = "."})

\* the configuration's value stored under component, then under variant
Entry(c, v) == Prop(Prop(variants, c), v)

\* calling the entry for (c, v), or its 'default' member, throws
EntryThrows(c, v) ==
    \/ Entry(c, v).k = "function" /\ Entry(c, v).x
    \/ /\ Entry(c, v).k = "object"
       /\ Prop(Entry(c, v), Default).k = "function"
       /\ Prop(Entry(c, v), Default).x

\* the styles registered in the fallback table
Registered == {fallbacks[k] : k \in DOMAIN fallbacks}

\* the last call is get(c, v) with c and v given as separate names
SeparateGet == op = "get" /\ IsName(args[1].s) /\ args[2].k = "string" /\ IsName(args[2].s)

\* C1: when resolving the entry inside get raises, get does not propagate
\* the exception and returns the fallback-resolution result for
\* (component, variant)
C1_GetFallsBackOnException ==
    (SeparateGet /\ EntryThrows(args[1].s, args[2].s))
        => /\ threw = FALSE
           /\ ret = StrV(getFallback(fallbacks, args[1].s, args[2].s).val)

C1_Witness ==
    /\ SeparateGet
    /\ EntryThrows(args[1].s, args[2].s)
    /\ threw = FALSE
    /\ ret = StrV(BgBlue)

\* the entry for (c, v) yields no style: it is missing, or of a shape get
\* does not resolve, or resolving it throws
Unusable(c, v) ==
    \/ ~Truthy(Prop(variants, c))
    \/ Entry(c, v).k \notin {"function", "string", "object"}
    \/ Entry(c, v).k = "object"
          /\ Prop(Entry(c, v), Default).k \notin {"function", "string"}
    \/ EntryThrows(c, v)

\* the size entry of (c, v) yields no style
SizeUnusable(c, v, z) ==
    \/ Entry(c, v).k # "object"
    \/ Prop(Entry(c, v), z).k \notin {"function", "string"}
    \/ Prop(Entry(c, v), z).x

\* the last call asks for the style of an entry that yields none
AsksUnusable ==
    \/ SeparateGet /\ Unusable(args[1].s, args[2].s)
    \/ op = "sized" /\ Unusable(args[1].s, args[2].s)
                    /\ SizeUnusable(args[1].s, args[2].s, args[3].s)
    \/ op = "nested" /\ Dots(args[1].s) = 1 /\ Len(args[1].s) = 3
                     /\ Unusable(<<args[1].s[1]>>, <<args[1].s[3]>>)
    \/ op = "when" /\ Truthy(args[1]) /\ Unusable(args[2].s, args[3].s)

C3_Stated(c, v) ==
    IF Prop(variants, c) = Undefined
    THEN getFallback(fallbacks, c, v).val
    ELSE IF Entry(c, v).k = "function" THEN Entry(c, v).s
    ELSE IF Entry(c, v).k = "string" THEN Entry(c, v).s
    ELSE IF Entry(c, v).k = "object"
            /\ Prop(Entry(c, v), Default).k \in {"function", "string"}
    THEN Prop(Entry(c, v), Default).s
    ELSE getFallback(fallbacks, c, v).val

C4_Stated(c, v) ==
    IF c \o Dot \o v \in DOMAIN fallbacks THEN fallbacks[c \o Dot \o v]
    ELSE IF c \o Dot \o Default \in DOMAIN fallbacks
    THEN fallbacks[c \o Dot \o Default]
    ELSE <<>>

\* C4: fallback resolution for (component, variant) returns the table's entry
\* for '<component>.<variant>' if present, otherwise the entry for
\* '<component>.default' if present, otherwise the empty string; so get on a
\* component absent from the configuration returns that
C4_FallbackEntryIfPresent ==
    (SeparateGet /\ Prop(variants, args[1].s) = Undefined)
        => ret = StrV(C4_Stated(args[1].s, args[2].s))

\* the table's entry for key was written by addFallback: it is not the entry
\* the constructor left there
Added(key) ==
    /\ key \in DOMAIN fallbacks
    /\ key \in DOMAIN setupDefaultFallbacks => fallbacks[key] # setupDefaultFallbacks[key]

\* C5: after addFallback('comp.var', classes), get('comp', 'var') on a
\* configuration where comp.var is absent returns exactly classes
C5_AddedFallbackIsReturned ==
    (/\ SeparateGet
     /\ Entry(args[1].s, args[2].s) = Undefined
     /\ Added(args[1].s \o Dot \o args[2].s))
        => ret = StrV(fallbacks[args[1].s \o Dot \o args[2].s])

\* the last call is get(path) with the variant omitted
DotGet == op = "get" /\ args[2].k = "undefined"

\* the piece of s before its first dot
BeforeFirstDot(s) ==
    SubSeq(s, 1, (CHOOSE i \in 1..Len(s) :
                     s[i] = "." /\ \A j \in 1..(i - 1) : s[j] # ".") - 1)

\* the piece of s after its first dot
AfterFirstDot(s) ==
    SubSeq(s, (CHOOSE i \in 1..Len(s) :
                  s[i] = "." /\ \A j \in 1..(i - 1) : s[j] # ".") + 1, Len(s))

\* C6: for dot-free non-empty names a and b, get('a.b') with no second
\* argument returns the same result as get('a', 'b'), whatever the
\* configuration and the fallback table
C6_DotFormEqualsSeparate ==
    (/\ DotGet
     /\ Dots(args[1].s) = 1
     /\ IsName(BeforeFirstDot(args[1].s))
     /\ IsName(AfterFirstDot(args[1].s)))
        => /\ threw = FALSE
           /\ ret = get(variants, fallbacks, BeforeFirstDot(args[1].s),
                        StrV(AfterFirstDot(args[1].s))).ret

C6_Witness ==
    /\ DotGet
    /\ args[1] = StrV(ButtonPrimary)
    /\ Prop(variants, ButtonPrimary) # Undefined
    /\ Entry(Button, Primary) = StrV(<<"cfg-str">>)
    /\ ret = StrV(<<"cfg-str">>)

\* C7 as stated: whenever a component's 'default' variant is a string or a
\* function, get(component) with the variant omitted returns the same result
\* as get(component, 'default')
C7_OmittedVariantIsDefault ==
    (DotGet /\ Entry(args[1].s, Default).k \in {"string", "function"})
        => ret = get(variants, fallbacks, args[1].s, StrV(Default)).ret

\* C7 amended: the same, for a component name without a dot
C7_OmittedVariantIsDefaultDotFree ==
    (/\ DotGet
     /\ IsName(args[1].s)
     /\ Entry(args[1].s, Default).k \in {"string", "function"})
        => /\ threw = FALSE
           /\ ret = get(variants, fallbacks, args[1].s, StrV(Default)).ret

C7_Witness ==
    /\ DotGet
    /\ args[1] = StrV(Button)
    /\ Entry(Button, Default) = FnV(<<"cfg-default-fn">>)
    /\ ret = StrV(<<"cfg-default-fn">>)

\* C8: get(path) with no variant and more than one dot in the path splits
\* the path on its first dot and resolves the two parts: get('a.b.c') equals
\* get('a', 'b.c')
C8_SplitsOnFirstDot ==
    (DotGet /\ Dots(args[1].s) > 1)
        => ret = get(variants, fallbacks, BeforeFirstDot(args[1].s),
                     StrV(AfterFirstDot(args[1].s))).ret

\* the component exists in the configuration and a truthy value is stored
\* under the variant key on it
C9_Stated(c, v) ==
    /\ c \in Keys(variants)
    /\ v \in Keys(variants.o[c])
    /\ Truthy(variants.o[c].o[v])

TotallyAbsent(c, v) ==
    /\ Entry(c, v) = Undefined
    /\ c \o Dot \o v \notin DOMAIN fallbacks
    /\ c \o Dot \o Default \notin DOMAIN fallbacks

C11_Stated(c, v, z) ==
    IF /\ Entry(c, v).k = "object"
       /\ Prop(Entry(c, v), z).k \in {"function", "string"}
       /\ ~Prop(Entry(c, v), z).x
    THEN StrV(Prop(Entry(c, v), z).s)
    ELSE get(variants, fallbacks, c, StrV(v)).ret

\* C11: sized(component, variant, size) returns the resolved size entry (a
\* function's result, or a string itself) when the configuration value for
\* (component, variant) is an object holding a function or string under the
\* size key; in every other case it returns exactly get(component, variant)
C11_SizedEntryOrGet ==
    op = "sized" => ret = C11_Stated(args[1].s, args[2].s, args[3].s)

RECURSIVE C12_Walk(_, _)
\* the value found by walking keys from value v, undefined as soon as a key
\* is absent
C12_Walk(v, keys) ==
    IF Len(keys) = 0 THEN v
    ELSE IF v.k = "object" /\ Head(keys) \in DOMAIN v.o
    THEN C12_Walk(v.o[Head(keys)], Tail(keys))
    ELSE Undefined

RECURSIVE C12_Segments(_)
\* the dot-separated segments of a path
C12_Segments(path) ==
    IF Dots(path) = 0 THEN <<path>>
    ELSE <<BeforeFirstDot(path)>> \o C12_Segments(AfterFirstDot(path))

\* the style C12 states for nested(path)
C12_Stated(path) ==
    LET t == C12_Walk(variants, C12_Segments(path))
        d == Prop(t, Default)
    IN  IF t.k \in {"function", "string"} /\ ~t.x THEN t.s
        ELSE IF t.k = "object" /\ d.k \in {"function", "string"} /\ ~d.x
        THEN d.s
        ELSE getFallback(fallbacks, C12_Segments(path)[1],
                         IF Dots(path) = 0 THEN <<>>
                         ELSE AfterFirstDot(path)).val

\* C12: nested(path) equals walking the configuration key by key from the
\* root and resolving the terminal value (function: its result; string:
\* itself; object with a function-or-string 'default': that default); if a
\* key on the way is absent or the terminal value does not resolve, it is
\* the fallback resolution for (first segment, remaining segments joined by
\* '.')
C12_NestedWalksOrFallsBack ==
    op = "nested" => ret = StrV(C12_Stated(args[1].s))

\* the style get(c, v) returns in the current state, v a value
GetOf(c, v) == get(variants, fallbacks, c.s, v).ret

\* the argument was passed to the call
Supplied(v) == v.k # "undefined"

\* the argument is a string of at least one character
NonEmpty(v) == v.k = "string" /\ Len(v.s) > 0

\* C13 as stated: when returns get(trueComponent, trueVariant) when the
\* condition is true; when it is false, get(falseComponent, falseVariant)
\* if both false-branch arguments are supplied, the empty string otherwise
C13_WhenSelectsBranch ==
    op = "when" =>
        ret = IF args[1].s = <<"true">> THEN GetOf(args[2], args[3])
              ELSE IF Supplied(args[4]) /\ Supplied(args[5])
              THEN GetOf(args[4], args[5])
              ELSE StrV(<<>>)

\* C13, amended: when returns get(trueComponent, trueVariant) when the
\* condition is true; when it is false, get(falseComponent, falseVariant)
\* if both false-branch arguments are supplied and non-empty, the empty
\* string otherwise
C13_WhenSelectsBranchNonEmpty ==
    op = "when" =>
        ret = IF args[1].s = <<"true">> THEN GetOf(args[2], args[3])
              ELSE IF NonEmpty(args[4]) /\ NonEmpty(args[5])
              THEN GetOf(args[4], args[5])
              ELSE StrV(<<>>)

\* a false condition with both false-branch names given selected a
\* non-empty style of the false branch that differs from the true branch's
C13_Witness ==
    /\ op = "when"
    /\ args[1].s = <<"false">>
    /\ NonEmpty(args[4]) /\ NonEmpty(args[5])
    /\ ret = GetOf(args[4], args[5])
    /\ ret # StrV(<<>>)
    /\ ret # GetOf(args[2], args[3])

\* the per-entry result of combine: nested(e) for an entry with a dot, the
\* entry itself otherwise
C14_Result(e) ==
    IF Dots(e) > 0 THEN nested(variants, fallbacks, e).ret.s ELSE e

RECURSIVE C14_Join(_)
\* the per-entry results in order, the empty ones dropped, one space
\* between neighbours
C14_Join(es) ==
    IF Len(es) = 0 THEN <<>>
    ELSE LET h == C14_Result(Head(es))
             t == C14_Join(Tail(es))
         IN  IF Len(h) = 0 THEN t
             ELSE IF Len(t) = 0 THEN h
             ELSE h \o <<" ">> \o t

\* C14: combine(e1, ..., en) is the single-space join, in argument order, of
\* the per-entry results (nested(e) for an entry containing a dot, e itself
\* otherwise) with empty results dropped; duplicates stay, and no entries or
\* only empty results give the empty string
C14_CombineJoinsNonEmpty ==
    op = "combine" =>
        /\ ~threw
        /\ ret = StrV(C14_Join([i \in 1..Len(args) |-> args[i].s]))
        /\ (\A i \in 1..Len(args) : C14_Result(args[i].s) = <<>>)
              => ret = StrV(<<>>)

\* combine dropped the empty result of a dotted entry and kept the literal
\* that followed it
C14_Witness ==
    /\ op = "combine"
    /\ Len(args) = 2
    /\ Dots(args[1].s) > 0
    /\ C14_Result(args[1].s) = <<>>
    /\ args[2].s = <<"lit">>
    /\ ret = StrV(<<"lit">>)

RECURSIVE Rep(_, _)
\* n copies of u, one space between neighbours
Rep(u, n) == IF n <= 1 THEN u ELSE u \o <<" ">> \o Rep(u, n - 1)

\* a and b are both space-joined repetitions of one same string
CommonRep(a, b) ==
    \E i \in 0..Len(a), m \in 1..(Len(a) + 1), n \in 1..(Len(b) + 1) :
        /\ a = Rep(SubSeq(a, 1, i), m)
        /\ b = Rep(SubSeq(a, 1, i), n)

\* the last call is combine('x.y', 'lit'): a path, then a dot-free literal,
\* both non-empty and not identical once resolved
PathThenLiteral ==
    /\ op = "combine"
    /\ Len(args) = 2
    /\ Dots(args[1].s) > 0
    /\ Dots(args[2].s) = 0
    /\ C14_Result(args[1].s) # <<>>
    /\ args[2].s # <<>>
    /\ C14_Result(args[1].s) # args[2].s

\* combine('lit', 'x.y') for the path and literal of the last call
Swapped == combine(variants, fallbacks, <<args[2].s, args[1].s>>).ret

\* C15 as stated: whenever nested('x.y') and the dot-free literal 'lit' are
\* non-empty and not identical, combine('x.y', 'lit') differs from
\* combine('lit', 'x.y')
C15_OrderMatters ==
    PathThenLiteral => ret # Swapped

\* C15, amended: whenever nested('x.y') and the dot-free literal 'lit' are
\* non-empty and are not both space-joined repetitions of one same string,
\* combine('x.y', 'lit') differs from combine('lit', 'x.y')
C15_OrderMattersUnlessRepetitions ==
    (PathThenLiteral /\ ~CommonRep(C14_Result(args[1].s), args[2].s))
        => ret # Swapped

\* combine put a resolved multi-token style before a literal, and the
\* swapped call puts them the other way round
C15_Witness ==
    /\ PathThenLiteral
    /\ ~CommonRep(C14_Result(args[1].s), args[2].s)
    /\ Len(C14_Result(args[1].s)) > 1
    /\ ret = StrV(C14_Result(args[1].s) \o <<" ">> \o args[2].s)
    /\ Swapped = StrV(args[2].s \o <<" ">> \o C14_Result(args[1].s))

\* the built-in seeds of the fallback table
SeedKeys ==
    {<<"button", ".", "primary">>, <<"button", ".", "secondary">>,
     <<"button", ".", "outline">>, <<"alert", ".", "default">>,
     <<"alert", ".", "destructive">>, <<"input", ".", "default">>,
     <<"badge", ".", "default">>}

\* the table holds exactly the seeds, each with its built-in style
Seeded ==
    /\ DOMAIN fallbacks = SeedKeys
    /\ fallbacks[<<"button", ".", "primary">>] = BgBlue
    /\ fallbacks[<<"button", ".", "secondary">>] = BgGray
    /\ fallbacks[<<"button", ".", "outline">>] = Outline
    /\ fallbacks[<<"alert", ".", "default">>] = AlertBlue
    /\ fallbacks[<<"alert", ".", "destructive">>] = AlertRed
    /\ fallbacks[<<"input", ".", "default">>] = InputBorder
    /\ fallbacks[<<"badge", ".", "default">>] = BadgeGray

\* one step of the resolver keeps every key of the table; a step that is
\* an addFallback call sets the entry of its key to its classes and keeps
\* every other entry; any other step keeps every entry
KeysKeptLastWriteWins ==
    /\ DOMAIN fallbacks \subseteq DOMAIN fallbacks'
    /\ IF op' = "addFallback"
       THEN /\ args'[1].s \in DOMAIN fallbacks'
            /\ fallbacks'[args'[1].s] = args'[2].s
            /\ \A k \in DOMAIN fallbacks' \ {args'[1].s} :
                  k \in DOMAIN fallbacks /\ fallbacks'[k] = fallbacks[k]
       ELSE fallbacks' = fallbacks

\* C16: the table starts as the built-in seeds, and through any sequence of
\* addFallback calls interleaved with the other operations no key is ever
\* removed and the entry of each key is the value of the most recent
\* addFallback for that key, or its seed if it was never written
C16_NoKeyRemovedLastWriteWins ==
    Seeded /\ [][KeysKeptLastWriteWins]_vars

\* a second addFallback call has just overwritten a built-in seed, and the
\* other seeds and an added key are still in the table
C16_Witness ==
    /\ op = "addFallback"
    /\ added = 2
    /\ args[1].s \in SeedKeys
    /\ fallbacks[args[1].s] = args[2].s
    /\ fallbacks[args[1].s] # setupDefaultFallbacks[args[1].s]
    /\ SeedKeys \subseteq DOMAIN fallbacks
    /\ \E k \in DOMAIN fallbacks \ SeedKeys : fallbacks[k] = <<"bg-gray-200">>

\* the resolver holds the very configuration object it was constructed with
ConfigurationKept ==
    (op = "constructor" /\ args[1].k = "object") => variants = args[1]

\* one step of the resolver leaves the configuration as it is, and leaves
\* the fallback table as it is unless the step is an addFallback call
ReadOnlyStep ==
    /\ variants' = variants
    /\ op' \in {"get", "sized", "nested", "when", "combine", "has", "idle"}
          => fallbacks' = fallbacks

\* C17: no resolver operation (construction, get, sized, nested, when,
\* combine, has, addFallback) modifies the caller-supplied configuration,
\* and after construction the fallback table is changed only by
\* addFallback
C17_ConfigReadOnlyTableOnlyByAddFallback ==
    ConfigurationKept /\ [][ReadOnlyStep]_vars

\* a get on a non-empty configuration has just returned a style that an
\* earlier addFallback registered, and the table still holds it
C17_Witness ==
    /\ op = "get"
    /\ added > 0
    /\ Keys(variants) # {}
    /\ ret.s # <<>>
    /\ \E k \in DOMAIN fallbacks \ SeedKeys : ret = StrV(fallbacks[k])
    /\ SeedKeys \subseteq DOMAIN fallbacks

\* the results of get, nested and sized on a resolver with configuration
\* vs and fallback table fb, for every argument explored
ResultsOn(vs, fb) ==
    [c \in ComponentArgs, v \in VariantArgs |-> get(vs, fb, c, v)]

NestedOn(vs, fb) == [path \in PathArgs |-> nested(vs, fb, path)]

SizedOn(vs, fb) ==
    [c \in {Button, Alert}, v \in {Primary, Missing}, z \in {Sm, Lg} |->
        sized(vs, fb, c, v, z)]

\* a step that is an addFallback call on one resolver leaves the table of
\* the other resolver, and the result of every call on it, as they were
OtherResolverUntouched ==
    /\ op' = "peer.addFallback" =>
          /\ fallbacks' = fallbacks
          /\ ResultsOn(variants', fallbacks') = ResultsOn(variants, fallbacks)
          /\ NestedOn(variants', fallbacks') = NestedOn(variants, fallbacks)
          /\ SizedOn(variants', fallbacks') = SizedOn(variants, fallbacks)
    /\ op' = "addFallback" =>
          /\ peer' = peer
          /\ ResultsOn(variants', peer') = ResultsOn(variants, peer)
          /\ NestedOn(variants', peer') = NestedOn(variants, peer)
          /\ SizedOn(variants', peer') = SizedOn(variants, peer)

Logged(code) == \E i \in 1..Len(log) : log[i] = code

\* every lookup on the resolver gives what it gives on the empty
\* configuration
BehavesAsEmpty ==
    /\ ResultsOn(variants, fallbacks) = ResultsOn(ObjV(NoProps), fallbacks)
    /\ NestedOn(variants, fallbacks) = NestedOn(ObjV(NoProps), fallbacks)
    /\ SizedOn(variants, fallbacks) = SizedOn(ObjV(NoProps), fallbacks)
    /\ \A c \in ComponentArgs, v \in {Primary, Default} :
          has(variants, c, v) = has(ObjV(NoProps), c, v)

\* C19: constructing a resolver never fails, and whenever the supplied
\* configuration is not an object (null or absent included) an
\* invalid-configuration error diagnostic is reported and every subsequent
\* lookup behaves exactly as it would on an empty configuration
C19_NonObjectConfigReportedAndEmpty ==
    op = "constructor" =>
        /\ ~threw
        /\ args[1].k # "object" =>
              Logged("INVALID_CONFIGURATION") /\ BehavesAsEmpty


\* the value the configuration holds for component c is a mapping of
\* variants
IsMapping(c) == variants.o[c].k = "object"

\* component c has a 'default' variant
HasDefault(c) == IsMapping(c) /\ Default \in DOMAIN variants.o[c].o

\* the errors C20 states: one for every variant value whose type is not
\* function, string or object
C20_Errors ==
    UNION {{[type |-> "error", component |-> c, variant |-> v] :
              v \in {w \in DOMAIN variants.o[c].o :
                       variants.o[c].o[w].k \in {"undefined", "number", "boolean"}}} :
           c \in {d \in Keys(variants) : IsMapping(d)}}

\* the warnings for the components in cs
C20_Warnings(cs) ==
    {[type |-> "warning", component |-> c, variant |-> <<>>] : c \in cs}

\* C20 as stated: validation at construction records a warning for every
\* component that lacks a 'default' variant and an error for every variant
\* value whose type is not function, string or object, and nothing else;
\* the validation diagnostic is emitted iff an issue was recorded
C20_ValidationIssues ==
    (op = "constructor" /\ variants.k = "object") =>
        /\ issues = C20_Warnings({c \in Keys(variants) : ~HasDefault(c)})
                       \cup C20_Errors
        /\ Logged("CONFIGURATION_VALIDATION") <=> issues # {}

\* C20, amended: validation at construction records a warning for every
\* component whose value is a non-null object that lacks a 'default'
\* variant and an error for every variant value of such a component whose
\* type is not function, string or object, and nothing else; the
\* validation diagnostic is emitted iff an issue was recorded
C20_ValidationIssuesOfMappings ==
    (op = "constructor" /\ variants.k = "object") =>
        /\ issues = C20_Warnings({c \in Keys(variants) :
                                     IsMapping(c) /\ ~HasDefault(c)})
                       \cup C20_Errors
        /\ Logged("CONFIGURATION_VALIDATION") <=> issues # {}

\* construction recorded both a missing-default warning and a
\* variant-type error, and emitted the validation diagnostic
C20_Witness ==
    /\ op = "constructor"
    /\ variants.k = "object"
    /\ \E i \in issues : i.type = "warning"
    /\ \E i \in issues : i.type = "error"
    /\ Logged("CONFIGURATION_VALIDATION")


\* the value has a shape that resolves to a string: a function, a string,
\* or an object whose 'default' is a function or a string
Resolvable(val) ==
    \/ val.k \in {"function", "string"}
    \/ val.k = "object" /\ Prop(val, Default).k \in {"function", "string"}

\* C21: every variant value that does not resolve to a string directly or
\* through one level of '.default' indirection (for example an object with
\* no function-or-string 'default') is reported as a validation error at
\* construction
C21_UnresolvableShapeIsError ==
    (op = "constructor" /\ variants.k = "object") =>
        \A c \in {d \in Keys(variants) : IsMapping(d)} :
            \A v \in DOMAIN variants.o[c].o :
                ~Resolvable(variants.o[c].o[v]) =>
                    [type |-> "error", component |-> c, variant |-> v] \in issues


\* the outcome recorded for the last call
Outcome == [ret |-> ret, threw |-> threw, log |-> log]

\* a plain resolver newly constructed from the facade's configuration:
\* the outcome of its sized, get, nested, when and combine
PlainSized(c, v, z) == sized(variants, setupDefaultFallbacks, c, v, z)

PlainGet(c, v) == get(variants, setupDefaultFallbacks, c, v)

\* the generic methods of the facade equal the plain resolver's own, and
\* alert, input and badge equal get on their component
C22_Generic ==
    /\ op = "v.alert" => Outcome = PlainGet(<<"alert">>, args[1])
    /\ op = "v.input" => Outcome = PlainGet(<<"input">>, args[1])
    /\ op = "v.badge" => Outcome = PlainGet(<<"badge">>, args[1])
    /\ op = "v.get" => Outcome = PlainGet(args[1].s, args[2])
    /\ op = "v.nested" =>
          Outcome = nested(variants, setupDefaultFallbacks, args[1].s)
    /\ op = "v.when" =>
          Outcome = when(variants, setupDefaultFallbacks, args[1], args[2].s,
                         args[3].s, args[4], args[5])
    /\ op = "v.combine" =>
          Outcome = combine(variants, setupDefaultFallbacks,
                            [i \in 1..Len(args) |-> args[i].s])

\* C22 as stated: the facade of createQuickVariants adds no state or
\* behaviour: button(variant, size) equals sized('button', variant, size)
\* of a plain resolver on the same configuration when a size argument is
\* given and get('button', variant) otherwise; alert, input, badge, get,
\* nested, when and combine equal the resolver's own methods
C22_FacadeEqualsResolver ==
    /\ C22_Generic
    /\ op = "v.button" =>
          Outcome = IF Supplied(args[2])
                    THEN PlainSized(<<"button">>, args[1].s, args[2].s)
                    ELSE PlainGet(<<"button">>, args[1])

\* C22, amended: as stated, with button(variant, size) equal to
\* sized('button', variant, size) when a non-empty size argument is given
\* and to get('button', variant) otherwise
C22_FacadeEqualsResolverNonEmptySize ==
    /\ C22_Generic
    /\ op = "v.button" =>
          Outcome = IF NonEmpty(args[2])
                    THEN PlainSized(<<"button">>, args[1].s, args[2].s)
                    ELSE PlainGet(<<"button">>, args[1])

\* the button accessor was given a size and returned the size entry,
\* which is not what get returns for the variant
C22_Witness ==
    /\ op = "v.button"
    /\ NonEmpty(args[2])
    /\ ret = StrV(Prop(Entry(<<"button">>, args[1].s), args[2].s).s)
    /\ ret # PlainGet(<<"button">>, args[1]).ret
    /\ ret # StrV(<<>>)


\* C23: a fallback registered with addFallback on the resolver returned by
\* createVariants(config) is used by the quick facade returned by
\* createQuickVariants(config): after variants.addFallback('button.custom',
\* classes), v.button('custom') returns classes when the configuration has
\* no button.custom variant
C23_FacadeUsesResolverFallback ==
    (/\ op = "v.button"
     /\ ~Supplied(args[2])
     /\ Entry(<<"button">>, args[1].s) = Undefined
     /\ Added(<<"button", ".">> \o args[1].s))
        => ret = StrV(fallbacks[<<"button", ".">> \o args[1].s])


\* neither the configuration nor the fallback table has anything for
\* (c, v): the entry does not resolve, and the table has no entry 'c.v'
\* and no entry 'c.default'
NothingAvailable(c, v) ==
    /\ ~Resolvable(Entry(c, v))
    /\ (c \o <<".">> \o v) \notin DOMAIN fallbacks
    /\ (c \o <<".", "default">>) \notin DOMAIN fallbacks

\* C24: get(component, variant) throws an Error when neither the requested
\* variant nor any fallback is available for (component, variant)
C24_GetThrowsWhenNothingAvailable ==
    (SeparateGet /\ NothingAvailable(args[1].s, args[2].s)) => threw


\* the last call is safeResolveVariant with options.strict = true and no
\* options.fallback
StrictNoFallback ==
    /\ op = "safeResolveVariant"
    /\ args[3] = BoolV(TRUE)
    /\ args[4] = Undefined

\* the variant name the last safeResolveVariant call asks for
AskedVariant == IF Supplied(args[2]) THEN args[2].s ELSE <<"default">>

\* the component asked for is missing from the configuration
ComponentMissing ==
    variants.k = "object" /\ args[1].s \notin DOMAIN variants.o

\* the component is a mapping without the variant asked for and without a
\* 'default' variant
VariantAndDefaultMissing ==
    /\ Prop(variants, args[1].s).k = "object"
    /\ Entry(args[1].s, AskedVariant) = Undefined
    /\ Entry(args[1].s, <<"default">>) = Undefined

\* C25: safeResolveVariant called with options.strict = true and no
\* options.fallback throws an error to its caller when the component is
\* missing from the configuration, or when the variant is missing and the
\* component has no 'default' variant
C25_StrictThrowsToCaller ==
    (StrictNoFallback /\ (ComponentMissing \/ VariantAndDefaultMissing))
        => threw


\* the dotted entry e matches no configuration path and no fallback key
Unmatched(e) ==
    /\ Dots(e) > 0
    /\ C12_Walk(variants, C12_Segments(e)) = Undefined
    /\ e \notin DOMAIN fallbacks
    /\ (BeforeFirstDot(e) \o <<".", "default">>) \notin DOMAIN fallbacks

RECURSIVE C26_Literals(_)
\* the dot-free non-empty entries of es in order, one space between
\* neighbours
C26_Literals(es) ==
    IF Len(es) = 0 THEN <<>>
    ELSE LET t == C26_Literals(Tail(es))
         IN  IF Dots(Head(es)) > 0 \/ Head(es) = <<>> THEN t
             ELSE IF t = <<>> THEN Head(es)
             ELSE Head(es) \o <<" ">> \o t

\* C26: in combine every entry containing a dot is resolved via nested,
\* never passed through as a literal: a dotted token (such as
\* 'w-[2.5rem]') that matches no configuration path and no fallback key
\* contributes nothing to the result, while every dot-free entry is
\* returned unchanged
C26_DottedEntryIsAPath ==
    op = "combine" =>
        /\ (Len(args) = 1 /\ Dots(args[1].s) > 0) =>
              ret = nested(variants, fallbacks, args[1].s).ret
        /\ (Len(args) = 1 /\ Dots(args[1].s) = 0) => ret = args[1]
        /\ (\A i \in 1..Len(args) : Dots(args[i].s) > 0 => Unmatched(args[i].s)) =>
              ret = StrV(C26_Literals([i \in 1..Len(args) |-> args[i].s]))

\* combine was given a literal and then the dotted token 'w-[2.5rem]',
\* which matches nothing, and returned the literal alone
C26_Witness ==
    /\ op = "combine"
    /\ Len(args) = 2
    /\ args[1].s = <<"lit">>
    /\ args[2].s = <<"w-[2", ".", "5rem]">>
    /\ Unmatched(args[2].s)
    /\ ret = StrV(<<"lit">>)


\* the value resolves: a function that returns, a string, or an object
\* whose 'default' is a function that returns or a string
Resolves(val) ==
    \/ val.k \in {"function", "string"} /\ ~val.x
    \/ /\ val.k = "object"
       /\ Prop(val, Default).k \in {"function", "string"}
       /\ ~Prop(val, Default).x

\* the style a value that resolves gives
ResolvedStyle(val) ==
    IF val.k = "object" THEN Prop(val, Default).s ELSE val.s

\* C27: configuration takes precedence over fallbacks: whenever the
\* configuration entry for (component, variant) resolves, get(component,
\* variant) returns the configuration's value, before and after any
\* sequence of addFallback calls, including addFallback for the key
\* '<component>.<variant>' itself
C27_ConfigurationBeforeFallbacks ==
    (SeparateGet /\ Resolves(Entry(args[1].s, args[2].s)))
        => ret = StrV(ResolvedStyle(Entry(args[1].s, args[2].s)))

\* after addFallback for the very key 'component.variant', get returned the
\* configuration's value, which is not the registered fallback
C27_Witness ==
    /\ SeparateGet
    /\ Resolves(Entry(args[1].s, args[2].s))
    /\ added > 0
    /\ Added(args[1].s \o <<".">> \o args[2].s)
    /\ ret = StrV(ResolvedStyle(Entry(args[1].s, args[2].s)))
    /\ ret # StrV(fallbacks[args[1].s \o <<".">> \o args[2].s])


\* the last call is nested('a.b') with dot-free non-empty names a and b
NestedPair ==
    /\ op = "nested"
    /\ Dots(args[1].s) = 1
    /\ IsName(BeforeFirstDot(args[1].s))
    /\ IsName(AfterFirstDot(args[1].s))

\* C28: for every configuration, every fallback table state and all
\* dot-free non-empty names a and b, nested('a.b') returns the same result
\* as get('a', 'b'), including when the entry is missing, malformed, or its
\* function throws
C28_NestedPairEqualsGet ==
    NestedPair =>
        ret = get(variants, fallbacks, BeforeFirstDot(args[1].s),
                  StrV(AfterFirstDot(args[1].s))).ret

\* the fallback-table result for (c, v): entry 'c.v', else entry
\* 'c.default', else the empty string
TableResult(c, v) ==
    IF (c \o <<".">> \o v) \in DOMAIN fallbacks
    THEN fallbacks[c \o <<".">> \o v]
    ELSE IF (c \o <<".", "default">>) \in DOMAIN fallbacks
    THEN fallbacks[c \o <<".", "default">>]
    ELSE <<>>

\* the last call is get(c, v) for a component c that has a resolvable
\* 'default' variant and no variant v
MissingVariantOfDefaulted ==
    /\ SeparateGet
    /\ Prop(variants, args[1].s).k = "object"
    /\ args[2].s \notin DOMAIN Prop(variants, args[1].s).o
    /\ Resolves(Entry(args[1].s, <<"default">>))

\* C29: get never substitutes the configuration's own 'default' variant
\* for a missing variant: when component c exists with a resolvable
\* 'default' variant but has no variant v, get(c, v) returns the
\* fallback-table result for (c, v) (entry 'c.v', else entry 'c.default',
\* else the empty string), not the value of c's configured default
C29_NoConfiguredDefaultForMissingVariant ==
    MissingVariantOfDefaulted => ret = StrV(TableResult(args[1].s, args[2].s))

\* C30: if the configuration value for (c, v) is the empty string,
\* get(c, v) returns the empty string whatever the fallback table holds: a
\* fallback registered for 'c.v' or 'c.default' is not used
C30_EmptyStringEntryIsReturned ==
    (SeparateGet /\ Entry(args[1].s, args[2].s) = StrV(<<>>))
        => ret = StrV(<<>>)

\* get returned the empty string of the configuration although non-empty
\* fallbacks are registered for 'c.v' and for 'c.default'
C30_Witness ==
    /\ SeparateGet
    /\ Entry(args[1].s, args[2].s) = StrV(<<>>)
    /\ ret = StrV(<<>>)
    /\ (args[1].s \o <<".">> \o args[2].s) \in DOMAIN fallbacks
    /\ fallbacks[args[1].s \o <<".">> \o args[2].s] # <<>>
    /\ (args[1].s \o <<".", "default">>) \in DOMAIN fallbacks
    /\ fallbacks[args[1].s \o <<".", "default">>] # <<>>

====
